---- MODULE Spec2Model ----
(***************************************************************************)
(* The training script tools/train.py as a state machine.  Every process   *)
(* that runs the script (one without DDP, one per rank under DDP) executes *)
(* main(cfg, gpu, save_dir) followed by cleanup_ddp().  The processes share *)
(* nothing but the checkpoint file under SAVE_DIR.                          *)
(*                                                                         *)
(* External calls (the data loader, evaluate, torch.save, the optimizer)    *)
(* are modelled by their effect on the script's state: evaluate returns a   *)
(* nondeterministic pair of accuracies, an optimizer step produces a new    *)
(* version of the weights, torch.save replaces the file's content.          *)
(***************************************************************************)
EXTENDS Integers, Sequences, FiniteSets

\* ---- bounds of the model ------------------------------------------------
MaxEpochs == 2
MaxInterval == 2
MaxBatches == 2
MaxAcc == 2

\* The processes that may run the script.
Procs == {"rank0", "rank1"}

Unbound == -1
NoFile == -1

VARIABLES
    cfg,            \* the parsed YAML configuration (constant during a run)
    ranks,          \* the processes launched in this run
    pc,             \* per process: the position in main
    epoch,          \* per process: the loop variable of "for epoch in range(epochs)"
    drawn,          \* per process: batches the enumerate(train_dataloader) has yielded this epoch
    iter,           \* per process: the local "iter" (Unbound before its first assignment)
    pbar,           \* per process: the local "pbar" (Unbound, or the epoch it was made for)
    weights,        \* per process: version of the student's weights (optimizer steps applied)
    teacher,        \* per process: "unbuilt", "eval" or "train"
    optimized,      \* per process: the models whose parameters the optimizer holds
    top1_acc,       \* per process: result of the last evaluate
    top5_acc,
    best_top1_acc,
    best_top5_acc,
    table,          \* per process: the rows of the results table
    exc,            \* per process: the uncaught exception, "" if none
    file,           \* the checkpoint file <MODEL_NAME>_<VARIANT>.pth: NoFile or saved weights
    lastSave,       \* the torch.save that completed last: who, at which epoch
    log             \* per process: the external calls made so far, in order

vars == <<cfg, ranks, pc, epoch, drawn, iter, pbar, weights, teacher, optimized,
          top1_acc, top5_acc, best_top1_acc, best_top5_acc, table, exc, file,
          lastSave, log>>

\* ---- helpers ------------------------------------------------------------

\* One logged call: op is the callee, e the epoch (0-based), x/y its integer
\* arguments or results, w the version of the student's weights at the call,
\* obj the object it is given.
Ev(op, e, x, y, w, obj) ==
    [op |-> op, epoch |-> e, x |-> x, y |-> y, w |-> w, obj |-> obj]

\* The calls of a process are traced when it is the only one running.
Logged(p, evs) == log' = IF ranks = {p} THEN [log EXCEPT ![p] = @ \o evs] ELSE log

\* evaluate(val_dataloader, model, device): a top-1 and a top-5 accuracy;
\* a top-1 hit is a top-5 hit.
AccPairs == {a \in (0..MaxAcc) \X (0..MaxAcc) : a[1] <= a[2]}

Configs ==
    [EPOCHS : 0..MaxEpochs, EVAL_INTERVAL : 1..MaxInterval,
     KD : BOOLEAN, DDP : BOOLEAN, NBATCHES : 0..MaxBatches]

\* ---- initial states -----------------------------------------------------

InitProc(c, r) ==
    /\ cfg = c
    /\ ranks = r
    /\ pc = [p \in Procs |-> IF p \in r THEN "setup" ELSE "off"]
    /\ epoch = [p \in Procs |-> 0]
    /\ drawn = [p \in Procs |-> 0]
    /\ iter = [p \in Procs |-> Unbound]
    /\ pbar = [p \in Procs |-> Unbound]
    /\ weights = [p \in Procs |-> 0]
    /\ teacher = [p \in Procs |-> "unbuilt"]
    /\ optimized = [p \in Procs |-> {}]
    /\ top1_acc = [p \in Procs |-> 0]
    /\ top5_acc = [p \in Procs |-> 0]
    /\ best_top1_acc = [p \in Procs |-> 0]
    /\ best_top5_acc = [p \in Procs |-> 0]
    /\ table = [p \in Procs |-> <<>>]
    /\ exc = [p \in Procs |-> ""]
    /\ file = NoFile
    /\ lastSave = [by |-> "", epoch |-> 0, top1 |-> 0, prev |-> 0]
    /\ log = [p \in Procs |-> <<>>]

\* A single process runs the script.
Init == \E c \in Configs : InitProc(c, {"rank0"})

\* Every rank runs the script, with TRAIN.DDP set.
InitDDP ==
    \E c \in Configs : c.DDP /\ ~c.KD /\ c.NBATCHES <= 1 /\ InitProc(c, Procs)

\* ---- the conditions and expressions of main -----------------------------

\* A slip at line 74: the loop stops one epoch short.
HasNextEpoch_OneShort(e, c) == e < c.EPOCHS - 1

\* Line 74: for epoch in range(epochs).
HasNextEpoch(e, c) == e < c.EPOCHS

\* Line 77: the sampler is told the epoch under DDP only.
SetEpochCalls(c, e, w) ==
    IF c.DDP THEN <<Ev("set_epoch", e, e, 0, w, "train_sampler")>> ELSE <<>>

\* A slip at line 81: the last batch of the loader is left out.
HasNextBatch_OneShort(d, c) == d < c.NBATCHES - 1

\* Line 81: for iter, (img, lbl) in pbar.
HasNextBatch(d, c) == d < c.NBATCHES

\* Lines 87-93: the forward passes of one iteration.
Forward(c, e, i, w) ==
    (IF c.KD THEN <<Ev("forward", e, i, 0, w, "teacher_model")>> ELSE <<>>)
    \o <<Ev("forward", e, i, 0, w, "model")>>

\* A slip at lines 105, 125: the locals are taken to be always assigned.
IsBound_Always(v) == TRUE

\* Lines 105, 125: reading a local that was never assigned raises.
IsBound(v) == v # Unbound

\* A slip at line 110: the final epoch is not forced.
EvalDue_IntervalOnly(e, c) == (e + 1) % c.EVAL_INTERVAL = 0

\* Line 110: whether this epoch is evaluated.
EvalDue(e, c) == (e + 1) % c.EVAL_INTERVAL = 0 \/ (e + 1) = c.EPOCHS

\* A slip at line 118: a tie counts as a new best.
IsNewBest_OrEqual(t, b) == t >= b

\* Line 118: whether the evaluation just made is a new best.
IsNewBest(t, b) == t > b

\* A slip at line 120: the top-1 accuracy is stored as the top-5.
BestTop5_Top1(t1, t5) == t1

\* Line 120: the top-5 accuracy kept with a new best top-1.
BestTop5(t1, t5) == t5

\* A slip at line 121: the DDP wrapper's state is saved.
SavedObject_Wrapper(c) == "model"

\* Line 121: what is saved.
SavedObject(c) == IF c.DDP THEN "model.module" ELSE "model"

\* A slip at line 121: an existing file is kept.
TorchSave_KeepExisting(old, state) == IF old = NoFile THEN state ELSE old

\* Line 121: torch.save(state, path): the file holds the state afterwards.
TorchSave(old, state) == state

\* A slip at lines 131-133: the teacher's row is added without the test of KD.ENABLE.
TableRows_Always(c, student, teacherRow) == <<student, teacherRow>>

\* Lines 128-133: the rows of the results table.
TableRows(c, student, teacherRow) ==
    IF c.KD THEN <<student, teacherRow>> ELSE <<student>>

\* ---- the steps of main --------------------------------------------------

\* Lines 28-72: locals, datasets, loaders, the student, the optional teacher,
\* loss, optimizer, scheduler, scaler and writer.
Setup(p) ==
    /\ pc[p] = "setup"
    /\ teacher' = [teacher EXCEPT ![p] = IF cfg.KD THEN "eval" ELSE @]
    /\ optimized' = [optimized EXCEPT ![p] = {"model"}]
    /\ Logged(p, (IF cfg.KD THEN <<Ev("get_model", 0, 0, 0, 0, "teacher_model"),
                                    Ev("eval", 0, 0, 0, 0, "teacher_model")>>
                            ELSE <<>>)
                  \o <<Ev("get_optimizer", 0, 0, 0, 0, "model")>>)
    /\ pc' = [pc EXCEPT ![p] = "for_epoch"]
    /\ UNCHANGED <<cfg, ranks, epoch, drawn, iter, pbar, weights, top1_acc, top5_acc,
                   best_top1_acc, best_top5_acc, table, exc, file, lastSave>>

\* Lines 74-79: the head of the epoch loop and the start of an epoch.
EpochBegin(p) ==
    /\ pc[p] = "for_epoch"
    /\ HasNextEpoch(epoch[p], cfg)
    /\ drawn' = [drawn EXCEPT ![p] = 0]
    /\ pbar' = [pbar EXCEPT ![p] = epoch[p]]
    /\ Logged(p, <<Ev("train", epoch[p], 0, 0, weights[p], "model")>>
                 \o SetEpochCalls(cfg, epoch[p], weights[p]))
    /\ pc' = [pc EXCEPT ![p] = "for_iter"]
    /\ UNCHANGED <<cfg, ranks, epoch, iter, weights, teacher, optimized, top1_acc,
                   top5_acc, best_top1_acc, best_top5_acc, table, exc, file, lastSave>>

\* Lines 81-103: one training iteration.
TrainIter(p) ==
    /\ pc[p] = "for_iter"
    /\ HasNextBatch(drawn[p], cfg)
    /\ iter' = [iter EXCEPT ![p] = drawn[p]]
    /\ drawn' = [drawn EXCEPT ![p] = @ + 1]
    /\ weights' = [weights EXCEPT ![p] = @ + 1]
    /\ Logged(p, Forward(cfg, epoch[p], drawn[p], weights[p])
                 \o <<Ev("step", epoch[p], drawn[p], 0, weights[p] + 1, "optimizer")>>)
    /\ UNCHANGED <<cfg, ranks, pc, epoch, pbar, teacher, optimized, top1_acc, top5_acc,
                   best_top1_acc, best_top5_acc, table, exc, file, lastSave>>

\* Lines 105-108: the loader is exhausted; average and log the loss, step
\* the scheduler.  "iter" is read at line 105: unbound, it raises.
EpochEnd(p) ==
    /\ pc[p] = "for_iter"
    /\ ~HasNextBatch(drawn[p], cfg)
    /\ IF IsBound(iter[p])
       THEN /\ pc' = [pc EXCEPT ![p] = "eval_check"]
            /\ Logged(p, <<Ev("add_scalar", epoch[p], epoch[p], 0, weights[p], "train/loss"),
                           Ev("step", epoch[p], 0, 0, weights[p], "scheduler")>>)
            /\ UNCHANGED exc
       ELSE /\ pc' = [pc EXCEPT ![p] = "crashed"]
            /\ exc' = [exc EXCEPT ![p] = "UnboundLocalError: iter"]
            /\ UNCHANGED log
    /\ UNCHANGED <<cfg, ranks, epoch, drawn, iter, pbar, weights, teacher, optimized,
                   top1_acc, top5_acc, best_top1_acc, best_top5_acc, table, file,
                   lastSave>>

\* Lines 110-116: the evaluation of the student.
Evaluate(p) ==
    /\ pc[p] = "eval_check"
    /\ EvalDue(epoch[p], cfg)
    /\ \E a \in AccPairs :
          /\ top1_acc' = [top1_acc EXCEPT ![p] = a[1]]
          /\ top5_acc' = [top5_acc EXCEPT ![p] = a[2]]
          /\ Logged(p, <<Ev("evaluate", epoch[p], a[1], a[2], weights[p], "model")>>)
    /\ pc' = [pc EXCEPT ![p] = "checkpoint"]
    /\ UNCHANGED <<cfg, ranks, epoch, drawn, iter, pbar, weights, teacher, optimized,
                   best_top1_acc, best_top5_acc, table, exc, file, lastSave>>

\* Line 110, condition false: on to the next epoch.
SkipEval(p) ==
    /\ pc[p] = "eval_check"
    /\ ~EvalDue(epoch[p], cfg)
    /\ epoch' = [epoch EXCEPT ![p] = @ + 1]
    /\ pc' = [pc EXCEPT ![p] = "for_epoch"]
    /\ UNCHANGED <<cfg, ranks, drawn, iter, pbar, weights, teacher, optimized, top1_acc,
                   top5_acc, best_top1_acc, best_top5_acc, table, exc, file, lastSave,
                   log>>

\* Lines 118-122: keep the best accuracies and save the student.
Checkpoint(p) ==
    /\ pc[p] = "checkpoint"
    /\ IF IsNewBest(top1_acc[p], best_top1_acc[p])
       THEN /\ best_top1_acc' = [best_top1_acc EXCEPT ![p] = top1_acc[p]]
            /\ best_top5_acc' = [best_top5_acc EXCEPT ![p] = BestTop5(top1_acc[p], top5_acc[p])]
            /\ file' = TorchSave(file, weights[p])
            /\ lastSave' = [by |-> p, epoch |-> epoch[p], top1 |-> top1_acc[p],
                            prev |-> best_top1_acc[p]]
            /\ Logged(p, <<Ev("torch.save", epoch[p], 0, 0, weights[p], SavedObject(cfg))>>)
       ELSE UNCHANGED <<best_top1_acc, best_top5_acc, file, lastSave, log>>
    /\ epoch' = [epoch EXCEPT ![p] = @ + 1]
    /\ pc' = [pc EXCEPT ![p] = "for_epoch"]
    /\ UNCHANGED <<cfg, ranks, drawn, iter, pbar, weights, teacher, optimized, top1_acc,
                   top5_acc, table, exc>>

\* Lines 124-125: after the loop.  "pbar" is read at line 125: unbound, it raises
\* (the writer is closed by then).
Close(p) ==
    /\ pc[p] = "for_epoch"
    /\ ~HasNextEpoch(epoch[p], cfg)
    /\ IF IsBound(pbar[p])
       THEN /\ pc' = [pc EXCEPT ![p] = "report"]
            /\ Logged(p, <<Ev("close", epoch[p], 0, 0, weights[p], "writer"),
                           Ev("close", epoch[p], 0, 0, weights[p], "pbar")>>)
            /\ UNCHANGED exc
       ELSE /\ pc' = [pc EXCEPT ![p] = "crashed"]
            /\ exc' = [exc EXCEPT ![p] = "UnboundLocalError: pbar"]
            /\ Logged(p, <<Ev("close", epoch[p], 0, 0, weights[p], "writer")>>)
    /\ UNCHANGED <<cfg, ranks, epoch, drawn, iter, pbar, weights, teacher, optimized,
                   top1_acc, top5_acc, best_top1_acc, best_top5_acc, table, file,
                   lastSave>>

\* Lines 127-139: the results table, with the teacher's row under KD.
Report(p) ==
    /\ pc[p] = "report"
    /\ \E a \in AccPairs :
          LET rows == TableRows(cfg, <<"model", best_top1_acc[p], best_top5_acc[p]>>,
                                <<"teacher_model", a[1], a[2]>>)
          IN  /\ cfg.KD \/ a = <<0, 0>>
              /\ table' = [table EXCEPT ![p] = rows]
              /\ Logged(p, (IF cfg.KD
                            THEN <<Ev("evaluate", epoch[p], a[1], a[2], weights[p],
                                      "teacher_model")>>
                            ELSE <<>>)
                           \o <<Ev("print", epoch[p], Len(rows), 0, weights[p], "table")>>)
    /\ pc' = [pc EXCEPT ![p] = "cleanup"]
    /\ UNCHANGED <<cfg, ranks, epoch, drawn, iter, pbar, weights, teacher, optimized,
                   top1_acc, top5_acc, best_top1_acc, best_top5_acc, exc, file, lastSave>>

\* Line 157: main has returned.
Cleanup(p) ==
    /\ pc[p] = "cleanup"
    /\ Logged(p, <<Ev("cleanup_ddp", epoch[p], 0, 0, weights[p], "")>>)
    /\ pc' = [pc EXCEPT ![p] = "done"]
    /\ UNCHANGED <<cfg, ranks, epoch, drawn, iter, pbar, weights, teacher, optimized,
                   top1_acc, top5_acc, best_top1_acc, best_top5_acc, table, exc, file,
                   lastSave>>

Step(p) ==
    \/ Setup(p)
    \/ EpochBegin(p)
    \/ TrainIter(p)
    \/ EpochEnd(p)
    \/ Evaluate(p)
    \/ SkipEval(p)
    \/ Checkpoint(p)
    \/ Close(p)
    \/ Report(p)
    \/ Cleanup(p)

Next == \E p \in Procs : Step(p)

Spec == Init /\ [][Next]_vars

\* A process that has not ended keeps running: every external call returns.
FairSpec == Spec /\ WF_vars(Next)

SpecDDP == InitDDP /\ [][Next]_vars

\* ---- reading the trace of the single process ----------------------------

P0 == "rank0"
L == log[P0]
Idx == 1..Len(L)

IsStudentEval(e) == e.op = "evaluate" /\ e.obj = "model"
IsSave(e) == e.op = "torch.save"
IsTeacherEval(e) == e.op = "evaluate" /\ e.obj = "teacher_model"
IsTrainStep(e) == e.op = "step" /\ e.obj = "optimizer"
IsSchedStep(e) == e.op = "step" /\ e.obj = "scheduler"

\* The evaluations of the student, in order.
StudentEvals == SelectSeq(L, IsStudentEval)

\* The evaluations whose block (lines 110-122) has been left.
SettledEvals ==
    IF pc[P0] = "checkpoint" THEN SubSeq(StudentEvals, 1, Len(StudentEvals) - 1)
    ELSE StudentEvals

Max(S) == CHOOSE m \in S : \A n \in S : n <= m

MaxTop1(s) == Max({s[i].x : i \in 1..Len(s)} \cup {0})
MaxTop5(s) == Max({s[i].y : i \in 1..Len(s)} \cup {0})

\* The earliest evaluation of s that reaches the maximal top-1 accuracy of s.
Earliest(s) ==
    CHOOSE i \in 1..Len(s) : s[i].x = MaxTop1(s) /\ \A j \in 1..(i - 1) : s[j].x < s[i].x

Evaluated(e) == \E i \in Idx : IsStudentEval(L[i]) /\ L[i].epoch = e

\* The epochs whose body (lines 75-122) has been left.
EpochsLeft == 0..(epoch[P0] - 1)

Ended == pc[P0] \in {"done", "crashed"}

\* ---- C1 -----------------------------------------------------------------
\* C1: once the checkpoint file exists it holds the weights of the earliest
\* evaluation that reached the maximal top-1 accuracy among the evaluations
\* made so far, and every torch.save directly follows an evaluation whose
\* top-1 accuracy is above that of every earlier evaluation and above 0.0.
C1_CheckpointIsBest ==
    /\ file # NoFile =>
          /\ Len(SettledEvals) > 0
          /\ file = SettledEvals[Earliest(SettledEvals)].w
    /\ \A i \in Idx : IsSave(L[i]) =>
          /\ i > 1
          /\ IsStudentEval(L[i - 1])
          /\ L[i - 1].epoch = L[i].epoch
          /\ L[i - 1].w = L[i].w
          /\ L[i - 1].x > 0
          /\ \A j \in 1..(i - 2) : IsStudentEval(L[j]) => L[j].x < L[i - 1].x

\* Two evaluations with the same top-1 accuracy: the file holds the first one's weights.
C1_Witness ==
    /\ pc[P0] = "done"
    /\ Len(StudentEvals) = 2
    /\ StudentEvals[1].x = 2 /\ StudentEvals[2].x = 2
    /\ file = StudentEvals[1].w
    /\ file # StudentEvals[2].w

\* ---- C2 -----------------------------------------------------------------
\* C2: a run of main that completes normally with EPOCHS >= 1 leaves the
\* checkpoint file, whatever the evaluations return.
C2_CheckpointLeft ==
    (pc[P0] = "done" /\ cfg.EPOCHS >= 1) => file # NoFile

\* ---- C3 -----------------------------------------------------------------
\* Epoch e (0-based) is evaluated exactly when e + 1 is a multiple of
\* EVAL_INTERVAL or equals EPOCHS, and the evaluated epochs strictly increase
\* (none is evaluated twice).
EvalSchedule ==
    /\ \A e \in EpochsLeft : Evaluated(e) <=> ((e + 1) % cfg.EVAL_INTERVAL = 0
                                                \/ (e + 1) = cfg.EPOCHS)
    /\ LET s == StudentEvals
       IN  \A k \in 1..(Len(s) - 1) : s[k].epoch < s[k + 1].epoch

\* C3 as stated: the schedule, and for every EPOCHS >= 1 the run evaluates the
\* final epoch (so evaluates at least once).
C3_Original ==
    /\ EvalSchedule
    /\ (Ended /\ cfg.EPOCHS >= 1) =>
          /\ Evaluated(cfg.EPOCHS - 1)
          /\ Len(StudentEvals) >= 1

\* C3 amended: the schedule, and for every EPOCHS >= 1 with at least one
\* training batch per epoch the run ends normally having evaluated the final epoch.
C3_EvalSchedule ==
    /\ EvalSchedule
    /\ (Ended /\ cfg.EPOCHS >= 1 /\ cfg.NBATCHES >= 1) =>
          /\ pc[P0] = "done"
          /\ Evaluated(cfg.EPOCHS - 1)
          /\ Len(StudentEvals) >= 1

\* Two epochs with EVAL_INTERVAL 2: the second epoch is evaluated, the first is not.
C3_Witness ==
    /\ pc[P0] = "done"
    /\ cfg.EPOCHS = 2 /\ cfg.EVAL_INTERVAL = 2
    /\ ~Evaluated(0) /\ Evaluated(1)

\* ---- C4 -----------------------------------------------------------------
\* C4 as stated: after every evaluation best_top1_acc and best_top5_acc are the
\* maxima of the top-1 and top-5 accuracies seen, and the table reports them.
C4_Original ==
    /\ best_top1_acc[P0] = MaxTop1(SettledEvals)
    /\ best_top5_acc[P0] = MaxTop5(SettledEvals)
    /\ pc[P0] \in {"cleanup", "done"} =>
          table[P0][1] = <<"model", best_top1_acc[P0], best_top5_acc[P0]>>

\* C4 amended: best_top1_acc is the maximal top-1 accuracy seen; best_top5_acc
\* is the top-5 accuracy of the earliest evaluation that reached that top-1
\* accuracy (0.0 while no top-1 accuracy was above 0.0); the table reports both.
C4_BestAccuracies ==
    /\ best_top1_acc[P0] = MaxTop1(SettledEvals)
    /\ best_top5_acc[P0] = IF MaxTop1(SettledEvals) > 0
                           THEN SettledEvals[Earliest(SettledEvals)].y
                           ELSE 0
    /\ best_top5_acc[P0] <= MaxTop5(SettledEvals)
    /\ pc[P0] \in {"cleanup", "done"} =>
          table[P0][1] = <<"model", best_top1_acc[P0], best_top5_acc[P0]>>

\* Evaluations (1, 1) then (1, 2): the best top-5 accuracy stays 1 although 2 was seen.
C4_Witness ==
    /\ pc[P0] = "done"
    /\ Len(StudentEvals) = 2
    /\ StudentEvals[1].x = 1 /\ StudentEvals[1].y = 1
    /\ StudentEvals[2].x = 1 /\ StudentEvals[2].y = 2
    /\ best_top5_acc[P0] = 1
    /\ table[P0][1] = <<"model", 1, 1>>

\* ---- C5 -----------------------------------------------------------------
IsTraining(e) ==
    \/ e.op = "train"
    \/ e.op = "set_epoch"
    \/ e.op = "forward"
    \/ IsTrainStep(e)

\* The place of a call in the procedure: construction, then per epoch the
\* training steps, the loss log, the scheduler step, the evaluation and the
\* checkpoint write, then the closing calls and the report.
Phase(e) ==
    CASE e.op \in {"get_model", "eval", "get_optimizer"} -> 0
      [] e.op \in {"train", "set_epoch"} -> 1
      [] e.op = "forward" \/ IsTrainStep(e) -> 2
      [] e.op = "add_scalar" -> 3
      [] IsSchedStep(e) -> 4
      [] IsStudentEval(e) -> 5
      [] IsSave(e) -> 6
      [] e.op = "close" -> 7
      [] IsTeacherEval(e) -> 8
      [] e.op = "print" -> 9
      [] e.op = "cleanup_ddp" -> 10

\* Calls a and b, made one after the other, are in the order of the procedure.
InOrder(a, b) ==
    \/ a.epoch < b.epoch
    \/ a.epoch = b.epoch /\ Phase(a) < Phase(b)
    \/ a.epoch = b.epoch /\ Phase(a) = Phase(b) /\ Phase(a) \in {0, 1, 2, 7}

\* C5: the calls are made in the order of the procedure: in every epoch all
\* the optimizer steps (one per batch) precede the one scheduler step, which
\* precedes the evaluation, which precedes the checkpoint write; nothing of a
\* later epoch precedes an earlier epoch's evaluation or checkpoint; the table
\* is printed after the last epoch's evaluation and after the writer is closed.
C5_LinearOrder ==
    /\ \A i \in 1..(Len(L) - 1) : InOrder(L[i], L[i + 1])
    /\ \A i \in Idx : L[i].epoch <= epoch[P0]
    /\ \A i \in Idx : IsSchedStep(L[i]) =>
          Cardinality({j \in 1..(i - 1) :
                          IsTrainStep(L[j]) /\ L[j].epoch = L[i].epoch}) = cfg.NBATCHES
    /\ \A i \in Idx : IsStudentEval(L[i]) =>
          \E j \in 1..(i - 1) : IsSchedStep(L[j]) /\ L[j].epoch = L[i].epoch
    /\ \A i \in Idx : IsSave(L[i]) => i > 1 /\ IsStudentEval(L[i - 1])
    /\ pc[P0] = "checkpoint" => IsStudentEval(L[Len(L)])
    /\ \A i \in Idx : L[i].op = "print" =>
          /\ \E j \in 1..(i - 1) : IsStudentEval(L[j]) /\ L[j].epoch = cfg.EPOCHS - 1
          /\ \E j \in 1..(i - 1) : L[j].op = "close" /\ L[j].obj = "writer"

\* Two epochs of two batches, each evaluated and saved, then the report.
C5_Witness ==
    /\ pc[P0] = "done"
    /\ cfg.EPOCHS = 2 /\ cfg.NBATCHES = 2
    /\ Cardinality({i \in Idx : IsSave(L[i])}) = 2

\* ---- C6 -----------------------------------------------------------------
IsLossLog(e) == e.op = "add_scalar" /\ e.obj = "train/loss"
IsModelTrain(e) == e.op = "train" /\ e.obj = "model"

LossLogs == SelectSeq(L, IsLossLog)

\* main has returned and cleanup_ddp was called, after EPOCHS epochs that
\* logged train/loss once each, with the epoch indices 0, 1, ... in order.
C6_Finished ==
    /\ pc[P0] = "done"
    /\ Len(SelectSeq(L, IsModelTrain)) = cfg.EPOCHS
    /\ Len(LossLogs) = cfg.EPOCHS
    /\ \A k \in 1..Len(LossLogs) : LossLogs[k].x = k - 1
    /\ L[Len(L)].op = "cleanup_ddp"
    /\ L[Len(L) - 1].op = "print"

IsTeacher(e) == e.obj = "teacher_model"
IsStudentFwd(e) == e.op = "forward" /\ e.obj = "model"

\* C7: the teacher is built, run on every training batch and evaluated exactly
\* when KD.ENABLE is set; its forward pass directly precedes the student's; it
\* is never given to the optimizer nor put in training mode; it is evaluated
\* once, after the epoch loop; the table has the student's row, followed by the
\* teacher's row under KD only.
C7_Distillation ==
    /\ pc[P0] # "setup" => (teacher[P0] = "eval" <=> cfg.KD)
    /\ teacher[P0] # "train"
    /\ optimized[P0] \subseteq {"model"}
    /\ \A i \in Idx : IsTeacher(L[i]) =>
          /\ cfg.KD
          /\ L[i].op \in {"get_model", "eval", "forward", "evaluate"}
    /\ \A i \in Idx : IsStudentFwd(L[i]) =>
          (cfg.KD <=> /\ i > 1
                      /\ L[i - 1] = Ev("forward", L[i].epoch, L[i].x, 0, L[i].w,
                                       "teacher_model"))
    /\ Cardinality({i \in Idx : IsTeacherEval(L[i])}) <= 1
    /\ \A i \in Idx : IsTeacherEval(L[i]) =>
          /\ \A j \in Idx : (IsTraining(L[j]) \/ IsSchedStep(L[j]) \/ IsStudentEval(L[j])
                             \/ IsSave(L[j]) \/ L[j].op = "close") => j < i
          /\ Len(SelectSeq(L, IsModelTrain)) = cfg.EPOCHS
    /\ pc[P0] \in {"cleanup", "done"} =>
          /\ Len(table[P0]) = IF cfg.KD THEN 2 ELSE 1
          /\ table[P0][1][1] = "model"
          /\ cfg.KD => table[P0][2][1] = "teacher_model"
          /\ Cardinality({i \in Idx : IsTeacherEval(L[i])}) = IF cfg.KD THEN 1 ELSE 0

\* A distilled run of two epochs of two batches, reported in two rows.
C7_Witness ==
    /\ pc[P0] = "done"
    /\ cfg.KD /\ cfg.EPOCHS = 2 /\ cfg.NBATCHES = 2
    /\ Len(table[P0]) = 2
    /\ Cardinality({i \in Idx : IsTeacher(L[i]) /\ L[i].op = "forward"}) = 4

\* ---- C8 -----------------------------------------------------------------
IsSetEpoch(e) == e.op = "set_epoch"

\* C8: under DDP every epoch calls set_epoch once, with its 0-based index,
\* before any batch of the epoch, and the checkpoint saves model.module's
\* state; without DDP set_epoch is never called and the model's state is saved.
C8_SamplerAndSavedState ==
    /\ \A i \in Idx : IsModelTrain(L[i]) =>
          Cardinality({j \in Idx : IsSetEpoch(L[j]) /\ L[j].epoch = L[i].epoch})
              = IF cfg.DDP THEN 1 ELSE 0
    /\ \A i \in Idx : IsSetEpoch(L[i]) =>
          /\ cfg.DDP
          /\ L[i].x = L[i].epoch
          /\ L[i].x = Cardinality({j \in 1..(i - 1) : IsSetEpoch(L[j])})
          /\ \A j \in 1..(i - 1) : L[j].op = "forward" => L[j].epoch < L[i].epoch
    /\ \A i \in Idx : IsSave(L[i]) =>
          L[i].obj = IF cfg.DDP THEN "model.module" ELSE "model"

\* A DDP run of two epochs that has saved a checkpoint.
C8_Witness ==
    /\ pc[P0] = "done"
    /\ cfg.DDP /\ cfg.EPOCHS = 2
    /\ Cardinality({i \in Idx : IsSetEpoch(L[i])}) = 2
    /\ \E i \in Idx : IsSave(L[i]) /\ L[i].obj = "model.module"

\* ---- C9 -----------------------------------------------------------------
Degenerate == cfg.EPOCHS = 0 \/ cfg.NBATCHES = 0

C9_NothingReported ==
    /\ pc[P0] \notin {"checkpoint", "report", "cleanup", "done"}
    /\ \A i \in Idx : L[i].op \notin {"evaluate", "torch.save", "print", "cleanup_ddp"}
    /\ file = NoFile
    /\ table[P0] = <<>>

C9_Aborted ==
    /\ pc[P0] = "crashed"
    /\ exc[P0] = IF cfg.EPOCHS = 0 THEN "UnboundLocalError: pbar"
                 ELSE "UnboundLocalError: iter"
    /\ epoch[P0] = 0

\* C9: with EPOCHS = 0, or with a training loader that yields no batch, main
\* ends in an uncaught exception (pbar unbound at line 125, respectively iter
\* unbound at line 105); nothing is evaluated, saved or printed and cleanup_ddp
\* is not called.
C9_DegenerateAborts ==
    /\ [](Degenerate => C9_NothingReported)
    /\ Degenerate ~> C9_Aborted

C9_Witness ==
    /\ C9_Aborted
    /\ cfg.EPOCHS = 2 /\ cfg.NBATCHES = 0
    /\ exc[P0] = "UnboundLocalError: iter"

\* ---- C10 ----------------------------------------------------------------
AllEnded == \A p \in ranks : pc[p] \in {"done", "crashed"}

====
